---- MODULE Spec2Model ----
(***************************************************************************)
(* Model of the presentation timer (src/app.py).                           *)
(*                                                                         *)
(* A Streamlit script is re-executed top to bottom for every refresh and   *)
(* every button click.  One execution ("run") of a browser session is      *)
(* modelled as three atomic steps in source order:                         *)
(*   Poll  lines 194-210  load_settings() and adoption of a newer record   *)
(*   Tick  lines 212-284  now = datetime.now(jst) and the automatic        *)
(*                        reached / expiry logic                           *)
(*   Act   lines 455-883  rendering and the handler of the clicked button  *)
(* The first run of a session additionally executes the session-state      *)
(* initialisation of lines 163-192 (Join).  Sessions interleave freely and *)
(* share the settings file.                                                *)
(***************************************************************************)
EXTENDS Integers, Sequences, FiniteSets, TLC

(* ---------------------------------------------------------------- bounds *)
\* number of instants of the time line the wall clock may visit
NumInstants == 3
\* number of datetime.now().isoformat() stamps that may be drawn
MaxStamp == 4
\* number of save_settings calls that may fail
MaxFails == 1
\* number of button clicks the users may make
MaxClicks == 2

Sessions == {"A", "B"}

(* ------------------------------------------------------------- constants *)
SecondsPerDay == 86400
DefaultDuration == 900
NoTime == -1            \* timer_start_time == ""
NoStamp == 0            \* timestamp == ""

STARTING_FROM == "STARTING_FROM"    \* suffix "kara kaishi" (starts at)
COUNTING_TO == "COUNTING_TO"        \* suffix "made" (until)

\* The instants (seconds since midnight of day 0, JST) the clock visits:
\* 09:59:08, 09:59:18, 10:00:00, 10:00:10, then 01:00:00, 10:00:00 and
\* 10:00:01 of the next day.
Timeline == <<35948, 35958, 36000, 36010, 90000, 122400, 122401>>

TimeOfDay(t) == t % SecondsPerDay
Today(t) == t \div SecondsPerDay

Time(h, m) == [hour |-> h, minute |-> m]
\* seconds since midnight of a datetime.time
TimeSeconds(tm) == tm.hour * 3600 + tm.minute * 60

Max(a, b) == IF a >= b THEN a ELSE b

(* ------------------------------------------------------- text conversion *)
Digits == <<"0", "1", "2", "3", "4", "5", "6", "7", "8", "9">>
DigitChars == {Digits[i] : i \in 1..10}
DigitVal(c) == CASE c = "0" -> 0 [] c = "1" -> 1 [] c = "2" -> 2 [] c = "3" -> 3 [] c = "4" -> 4 [] c = "5" -> 5 [] c = "6" -> 6 [] c = "7" -> 7 [] c = "8" -> 8 [] c = "9" -> 9
DigitChar(n) == Digits[n + 1]

\* A text is a sequence of one-character strings.  None is <<>>, a parsed
\* value v is <<v>>.
IsDigitOrColon(c) == c \in DigitChars \cup {":"}

\* re.sub(r'[^\d:]', '', text)
Clean(text) == SelectSeq(text, IsDigitOrColon)

\* Characters typed with a Japanese input method: the full-width seven
\* (U+FF17) and the full-width colon (U+FF1A), each one character.
FullwidthSeven == "U+FF17"
FullwidthColon == "U+FF1A"

\* unicodedata.normalize('NFKC', text)
Normalize(text) ==
    [i \in 1..Len(text) |->
        CASE text[i] = FullwidthSeven -> "7"
          [] text[i] = FullwidthColon -> ":"
          [] OTHER -> text[i]]

ColonCount(cs) == Cardinality({i \in 1..Len(cs) : cs[i] = ":"})
FirstColon(cs) == CHOOSE i \in 1..Len(cs) : cs[i] = ":" /\ \A j \in 1..(i - 1) : cs[j] # ":"

RECURSIVE IntOf(_)
\* int(ds) for a non-empty digit string ds
IntOf(ds) == IF Len(ds) = 0 THEN 0
             ELSE IntOf(SubSeq(ds, 1, Len(ds) - 1)) * 10 + DigitVal(ds[Len(ds)])

\* strftime('%I:%M'): the hour of the 12-hour clock
Strftime_12h(tm) ==
    LET hour == IF tm.hour % 12 = 0 THEN 12 ELSE tm.hour % 12 IN
    << DigitChar(hour \div 10), DigitChar(hour % 10), ":",
       DigitChar(tm.minute \div 10), DigitChar(tm.minute % 10) >>

\* target_time.strftime('%H:%M')
Strftime(tm) ==
    << DigitChar(tm.hour \div 10), DigitChar(tm.hour % 10), ":",
       DigitChar(tm.minute \div 10), DigitChar(tm.minute % 10) >>

\* strptime(text, '%H:%M') does not raise ValueError: one or two digits
\* of an hour up to 23, a colon, one or two digits of a minute up to 59
StrptimeOK(text) ==
    /\ Clean(text) = text
    /\ ColonCount(text) = 1
    /\ LET p == FirstColon(text)
           h == SubSeq(text, 1, p - 1)
           m == SubSeq(text, p + 1, Len(text))
       IN  /\ Len(h) \in {1, 2} /\ IntOf(h) <= 23
           /\ Len(m) \in {1, 2} /\ IntOf(m) <= 59

\* datetime.datetime.strptime(text, '%H:%M').time()
Strptime(text) ==
    LET p == FirstColon(text) IN
    Time(IntOf(SubSeq(text, 1, p - 1)), IntOf(SubSeq(text, p + 1, Len(text))))

(* ------------------------------------------------------- settings store *)
\* the tuple load_settings returns, as a record
DefaultSettings ==
    [ time |-> Time(23, 59), suffix |-> STARTING_FROM, timestamp |-> NoStamp,
      color_state |-> FALSE, force_color |-> FALSE, timer_mode |-> "clock",
      presentation_duration |-> DefaultDuration, timer_started |-> FALSE,
      timer_start_time |-> NoTime, timer_paused |-> FALSE,
      timer_pause_time |-> 0 ]

\* data.get(key, default)
Get(data, key, default) == IF key \in DOMAIN data THEN data[key] ELSE default

\* the statements of the try block run to the return: the file exists,
\* data['time'] and data['suffix'] exist and the time text parses.  A file
\* that is empty or not a JSON object is a document without keys.
Loads(f) ==
    /\ Len(f) = 1
    /\ "time" \in DOMAIN f[1] /\ "suffix" \in DOMAIN f[1]
    /\ StrptimeOK(f[1].time)

\* load_settings that replaces a time text it cannot parse by 23:59 and
\* takes the rest from the document
load_settings_keep_rest(f) ==
    IF Len(f) = 1 /\ "time" \in DOMAIN f[1] /\ "suffix" \in DOMAIN f[1]
    THEN [ time |-> IF StrptimeOK(f[1].time) THEN Strptime(f[1].time)
                    ELSE Time(23, 59),
           suffix |-> f[1].suffix,
           timestamp |-> Get(f[1], "timestamp", NoStamp),
           color_state |-> Get(f[1], "color_state", FALSE),
           force_color |-> Get(f[1], "force_color", FALSE),
           timer_mode |-> Get(f[1], "timer_mode", "clock"),
           presentation_duration |->
               Get(f[1], "presentation_duration", DefaultDuration),
           timer_started |-> Get(f[1], "timer_started", FALSE),
           timer_start_time |-> Get(f[1], "timer_start_time", NoTime),
           timer_paused |-> Get(f[1], "timer_paused", FALSE),
           timer_pause_time |-> Get(f[1], "timer_pause_time", 0) ]
    ELSE DefaultSettings

\* f is the settings file: <<>> when it does not exist, <<data>> otherwise;
\* every exception of the try block ends in the defaults of line 135
load_settings(f) ==
    IF Loads(f)
    THEN [ time |-> Strptime(f[1].time), suffix |-> f[1].suffix,
           timestamp |-> Get(f[1], "timestamp", NoStamp),
           color_state |-> Get(f[1], "color_state", FALSE),
           force_color |-> Get(f[1], "force_color", FALSE),
           timer_mode |-> Get(f[1], "timer_mode", "clock"),
           presentation_duration |->
               Get(f[1], "presentation_duration", DefaultDuration),
           timer_started |-> Get(f[1], "timer_started", FALSE),
           timer_start_time |-> Get(f[1], "timer_start_time", NoTime),
           timer_paused |-> Get(f[1], "timer_paused", FALSE),
           timer_pause_time |-> Get(f[1], "timer_pause_time", 0) ]
    ELSE DefaultSettings

\* the arguments of one save_settings call
SaveArgs(target_time, suffix, color_state, force_color, timer_mode, presentation_duration, timer_started, timer_start_time, timer_paused, timer_pause_time) ==
    [ target_time |-> target_time, suffix |-> suffix,
      color_state |-> color_state, force_color |-> force_color,
      timer_mode |-> timer_mode,
      presentation_duration |-> presentation_duration,
      timer_started |-> timer_started, timer_start_time |-> timer_start_time,
      timer_paused |-> timer_paused, timer_pause_time |-> timer_pause_time ]

\* the JSON document save_settings writes for arguments a at stamp ts
save_settings(a, ts) ==
    [ time |-> Strftime(a.target_time), suffix |-> a.suffix,
      color_state |-> a.color_state, force_color |-> a.force_color,
      timestamp |-> ts, timer_mode |-> a.timer_mode,
      presentation_duration |-> a.presentation_duration,
      timer_started |-> a.timer_started,
      timer_start_time |-> a.timer_start_time,
      timer_paused |-> a.timer_paused,
      timer_pause_time |-> a.timer_pause_time ]

(* ---------------------------------------------------------------- parsing *)
ValidTime(hour, minute) ==
    IF 0 <= hour /\ hour <= 23 /\ 0 <= minute /\ minute <= 59
    THEN <<Time(hour, minute)>> ELSE <<>>

\* parse_time_input reading three digits as two of hour and one of minute
parse_time_input_hhm(time_str) ==
    LET clean_str == Clean(Normalize(time_str)) IN
    IF Len(time_str) = 0 THEN <<>>
    ELSE IF ColonCount(clean_str) > 0
    THEN IF ColonCount(clean_str) = 1
         THEN LET p == FirstColon(clean_str)
                  h == SubSeq(clean_str, 1, p - 1)
                  m == SubSeq(clean_str, p + 1, Len(clean_str))
              IN  IF Len(h) = 0 \/ Len(m) = 0 THEN <<>>
                  ELSE ValidTime(IntOf(h), IntOf(m))
         ELSE <<>>
    ELSE CASE Len(clean_str) = 1 -> ValidTime(IntOf(clean_str), 0)
           [] Len(clean_str) = 2 -> ValidTime(IntOf(clean_str), 0)
           [] Len(clean_str) = 3 -> ValidTime(IntOf(SubSeq(clean_str, 1, 2)),
                                              IntOf(SubSeq(clean_str, 3, 3)))
           [] Len(clean_str) = 4 -> ValidTime(IntOf(SubSeq(clean_str, 1, 2)),
                                              IntOf(SubSeq(clean_str, 3, 4)))
           [] OTHER -> <<>>

parse_time_input(time_str) ==
    LET clean_str == Clean(Normalize(time_str)) IN
    IF Len(time_str) = 0 THEN <<>>
    ELSE IF ColonCount(clean_str) > 0
    THEN IF ColonCount(clean_str) = 1
         THEN LET p == FirstColon(clean_str)
                  h == SubSeq(clean_str, 1, p - 1)
                  m == SubSeq(clean_str, p + 1, Len(clean_str))
              IN  IF Len(h) = 0 \/ Len(m) = 0 THEN <<>>     \* ValueError
                  ELSE ValidTime(IntOf(h), IntOf(m))
         ELSE <<>>
    ELSE CASE Len(clean_str) = 1 -> ValidTime(IntOf(clean_str), 0)
           [] Len(clean_str) = 2 -> ValidTime(IntOf(clean_str), 0)
           [] Len(clean_str) = 3 -> ValidTime(IntOf(SubSeq(clean_str, 1, 1)),
                                              IntOf(SubSeq(clean_str, 2, 3)))
           [] Len(clean_str) = 4 -> ValidTime(IntOf(SubSeq(clean_str, 1, 2)),
                                              IntOf(SubSeq(clean_str, 3, 4)))
           [] OTHER -> <<>>

\* parse_duration_input taking every plain integer for minutes
parse_duration_input_minutes(duration_str) ==
    LET clean_str == Clean(Normalize(duration_str)) IN
    IF Len(duration_str) = 0 THEN <<>>
    ELSE IF ColonCount(clean_str) > 0
    THEN IF ColonCount(clean_str) = 1
         THEN LET p == FirstColon(clean_str)
                  mi == SubSeq(clean_str, 1, p - 1)
                  se == SubSeq(clean_str, p + 1, Len(clean_str))
              IN  IF Len(mi) = 0 \/ Len(se) = 0 THEN <<>>
                  ELSE IF IntOf(mi) >= 0 /\ 0 <= IntOf(se) /\ IntOf(se) <= 59
                       THEN <<IntOf(mi) * 60 + IntOf(se)>>
                       ELSE <<>>
         ELSE <<>>
    ELSE IF Len(clean_str) = 0 THEN <<>>
    ELSE LET duration == IntOf(clean_str) IN
         IF duration <= 0 THEN <<>>
         ELSE <<duration * 60>>

parse_duration_input(duration_str) ==
    LET clean_str == Clean(Normalize(duration_str)) IN
    IF Len(duration_str) = 0 THEN <<>>
    ELSE IF ColonCount(clean_str) > 0
    THEN IF ColonCount(clean_str) = 1
         THEN LET p == FirstColon(clean_str)
                  mi == SubSeq(clean_str, 1, p - 1)
                  se == SubSeq(clean_str, p + 1, Len(clean_str))
              IN  IF Len(mi) = 0 \/ Len(se) = 0 THEN <<>>   \* ValueError
                  ELSE IF IntOf(mi) >= 0 /\ 0 <= IntOf(se) /\ IntOf(se) <= 59
                       THEN <<IntOf(mi) * 60 + IntOf(se)>>
                       ELSE <<>>
         ELSE <<>>
    ELSE IF Len(clean_str) = 0 THEN <<>>                    \* ValueError
    ELSE LET duration == IntOf(clean_str) IN
         IF duration <= 0 THEN <<>>
         ELSE IF duration < 60 THEN <<duration * 60>>
         ELSE <<duration>>

(* -------------------------------------------------------- session state *)
\* st.session_state after the initialisation of the first run; shared is
\* the result of the load_settings() call of line 166
session_init(shared) ==
    [ target_time |-> shared.time, suffix |-> shared.suffix,
      last_timestamp |-> shared.timestamp, time_reached |-> FALSE,
      editing |-> FALSE, force_color_change |-> FALSE,
      timer_mode |-> shared.timer_mode,
      presentation_duration |-> shared.presentation_duration,
      timer_started |-> shared.timer_started,
      timer_start_time |-> shared.timer_start_time,
      timer_paused |-> shared.timer_paused,
      timer_pause_time |-> shared.timer_pause_time ]

\* adoption that leaves the mode and the target time of the session alone
adopt_partial(l, current) ==
    IF current.timestamp # l.last_timestamp /\ current.timestamp # NoStamp
    THEN [ l EXCEPT !.suffix = current.suffix,
                    !.last_timestamp = current.timestamp,
                    !.time_reached = current.color_state,
                    !.force_color_change = current.force_color,
                    !.presentation_duration = current.presentation_duration,
                    !.timer_started = current.timer_started,
                    !.timer_start_time = current.timer_start_time,
                    !.timer_paused = current.timer_paused,
                    !.timer_pause_time = current.timer_pause_time ]
    ELSE l

\* adoption of a record written by another run; current is the result of
\* the load_settings() call of line 197
adopt(l, current) ==
    IF current.timestamp # l.last_timestamp /\ current.timestamp # NoStamp
    THEN [ l EXCEPT !.target_time = current.time,
                    !.suffix = current.suffix,
                    !.last_timestamp = current.timestamp,
                    !.time_reached = current.color_state,
                    !.force_color_change = current.force_color,
                    !.timer_mode = current.timer_mode,
                    !.presentation_duration = current.presentation_duration,
                    !.timer_started = current.timer_started,
                    !.timer_start_time = current.timer_start_time,
                    !.timer_paused = current.timer_paused,
                    !.timer_pause_time = current.timer_pause_time ]
    ELSE l

\* save_settings called with the timer marked as started
SaveLocal_started(l, color_state, force_color) ==
    SaveArgs(l.target_time, l.suffix, color_state, force_color, l.timer_mode,
             l.presentation_duration, TRUE, l.timer_start_time,
             l.timer_paused, l.timer_pause_time)

\* save_settings called with the timer fields of the session state
SaveLocal(l, color_state, force_color) ==
    SaveArgs(l.target_time, l.suffix, color_state, force_color, l.timer_mode,
             l.presentation_duration, l.timer_started, l.timer_start_time,
             l.timer_paused, l.timer_pause_time)

\* The outcome of a piece of a run: the new session state, the
\* save_settings calls it made in order, whether st.balloons() was called,
\* whether it ended in st.rerun(), and the message it showed.
Outcome(l, saves, balloons, rerun, msg) ==
    [ l |-> l, saves |-> saves, balloons |-> balloons, rerun |-> rerun,
      msg |-> msg ]

\* remaining_seconds of a running timer
Remaining(l, now) == l.presentation_duration - (now - l.timer_start_time)

\* remaining_seconds as the tick computes it, lines 219-244
remaining_seconds(l, now) ==
    IF l.timer_started /\ ~l.timer_paused
    THEN IF l.timer_start_time # NoTime
         THEN Remaining(l, now)
         ELSE l.presentation_duration
    ELSE IF l.timer_paused
    THEN l.timer_pause_time
    ELSE l.presentation_duration

\* display that lets a paused timer run on
display_remaining_seconds_unpaused(l, now) ==
    IF l.timer_started /\ l.timer_start_time # NoTime
    THEN Remaining(l, now)
    ELSE IF l.timer_paused
    THEN l.timer_pause_time
    ELSE l.presentation_duration

\* remaining_seconds as the display computes it again, lines 457-465
display_remaining_seconds(l, now) ==
    IF l.timer_started /\ ~l.timer_paused /\ l.timer_start_time # NoTime
    THEN Remaining(l, now)
    ELSE IF l.timer_paused
    THEN l.timer_pause_time
    ELSE l.presentation_duration

\* time_diff of the elapsed display of the clock, lines 687-690, in
\* seconds: now minus the target time on today's date
clock_elapsed(l, now) ==
    now - (Today(now) * SecondsPerDay + TimeSeconds(l.target_time))

\* presentation-mode tick that expires only once the remaining time is
\* negative
presentation_tick_strict(l, now) ==
    IF l.timer_started /\ ~l.timer_paused
    THEN IF l.timer_start_time # NoTime /\ Remaining(l, now) < 0
              /\ ~l.time_reached
         THEN LET l2 == [l EXCEPT !.time_reached = TRUE,
                                  !.force_color_change = TRUE]
              IN  Outcome(l2, <<SaveLocal(l2, TRUE, TRUE)>>, TRUE, FALSE, "")
         ELSE Outcome(l, <<>>, FALSE, FALSE, "")
    ELSE IF l.timer_paused
    THEN Outcome(l, <<>>, FALSE, FALSE, "")
    ELSE IF l.time_reached
         THEN LET l2 == [l EXCEPT !.time_reached = FALSE,
                                  !.force_color_change = FALSE]
              IN  Outcome(l2, <<SaveLocal(l2, FALSE, FALSE)>>, FALSE, FALSE, "")
         ELSE Outcome(l, <<>>, FALSE, FALSE, "")

\* presentation-mode tick that leaves a stopped timer pink
presentation_tick_stopped_pink(l, now) ==
    IF l.timer_started /\ ~l.timer_paused
    THEN IF l.timer_start_time # NoTime
         THEN IF Remaining(l, now) <= 0 /\ ~l.time_reached
              THEN LET l2 == [l EXCEPT !.time_reached = TRUE,
                                       !.force_color_change = TRUE]
                   IN  Outcome(l2, <<SaveLocal(l2, TRUE, TRUE)>>, TRUE, FALSE, "")
              ELSE Outcome(l, <<>>, FALSE, FALSE, "")
         ELSE Outcome(l, <<>>, FALSE, FALSE, "")
    ELSE Outcome(l, <<>>, FALSE, FALSE, "")

\* presentation-mode branch of the tick, lines 217-260
presentation_tick(l, now) ==
    IF l.timer_started /\ ~l.timer_paused
    THEN IF l.timer_start_time # NoTime
         THEN IF Remaining(l, now) <= 0 /\ ~l.time_reached
              THEN LET l2 == [l EXCEPT !.time_reached = TRUE,
                                       !.force_color_change = TRUE]
                   IN  Outcome(l2, <<SaveLocal(l2, TRUE, TRUE)>>, TRUE, FALSE, "")
              ELSE Outcome(l, <<>>, FALSE, FALSE, "")
         ELSE Outcome(l, <<>>, FALSE, FALSE, "")
    ELSE IF l.timer_paused
    THEN Outcome(l, <<>>, FALSE, FALSE, "")
    ELSE IF l.time_reached
         THEN LET l2 == [l EXCEPT !.time_reached = FALSE,
                                  !.force_color_change = FALSE]
              IN  Outcome(l2, <<SaveLocal(l2, FALSE, FALSE)>>, FALSE, FALSE, "")
         ELSE Outcome(l, <<>>, FALSE, FALSE, "")

\* clock-mode tick that is reached only after the target minute began
clock_tick_strict(l, now) ==
    LET current_time_reached == TimeOfDay(now) > TimeSeconds(l.target_time) IN
    IF current_time_reached /\ ~l.time_reached
    THEN LET l2 == [l EXCEPT !.time_reached = TRUE,
                             !.force_color_change = TRUE]
         IN  Outcome(l2, <<SaveLocal(l2, TRUE, TRUE)>>, TRUE, FALSE, "")
    ELSE IF ~current_time_reached /\ ~l.force_color_change
    THEN Outcome([l EXCEPT !.time_reached = FALSE], <<>>, FALSE, FALSE, "")
    ELSE Outcome(l, <<>>, FALSE, FALSE, "")

\* clock-mode tick that clears both colour flags before the target time
clock_tick_new_day(l, now) ==
    LET current_time_reached == TimeOfDay(now) >= TimeSeconds(l.target_time) IN
    IF current_time_reached /\ ~l.time_reached
    THEN LET l2 == [l EXCEPT !.time_reached = TRUE,
                             !.force_color_change = TRUE]
         IN  Outcome(l2, <<SaveLocal(l2, TRUE, TRUE)>>, TRUE, FALSE, "")
    ELSE IF ~current_time_reached
    THEN Outcome([l EXCEPT !.time_reached = FALSE,
                           !.force_color_change = FALSE],
                 <<>>, FALSE, FALSE, "")
    ELSE Outcome(l, <<>>, FALSE, FALSE, "")

\* clock-mode tick that clears the colour before the target time also
\* while force_color_change is set
clock_tick_unpinned(l, now) ==
    LET current_time_reached == TimeOfDay(now) >= TimeSeconds(l.target_time) IN
    IF current_time_reached /\ ~l.time_reached
    THEN LET l2 == [l EXCEPT !.time_reached = TRUE,
                             !.force_color_change = TRUE]
         IN  Outcome(l2, <<SaveLocal(l2, TRUE, TRUE)>>, TRUE, FALSE, "")
    ELSE IF ~current_time_reached
    THEN Outcome([l EXCEPT !.time_reached = FALSE], <<>>, FALSE, FALSE, "")
    ELSE Outcome(l, <<>>, FALSE, FALSE, "")

\* clock-mode tick that reaches without setting force_color_change
clock_tick_unforced(l, now) ==
    LET current_time_reached == TimeOfDay(now) >= TimeSeconds(l.target_time) IN
    IF current_time_reached /\ ~l.time_reached
    THEN LET l2 == [l EXCEPT !.time_reached = TRUE]
         IN  Outcome(l2, <<SaveLocal(l2, TRUE, FALSE)>>, TRUE, FALSE, "")
    ELSE IF ~current_time_reached /\ ~l.force_color_change
    THEN Outcome([l EXCEPT !.time_reached = FALSE], <<>>, FALSE, FALSE, "")
    ELSE Outcome(l, <<>>, FALSE, FALSE, "")

\* clock-mode tick that turns the session pink without saving
clock_tick_unsaved(l, now) ==
    LET current_time_reached == TimeOfDay(now) >= TimeSeconds(l.target_time) IN
    IF current_time_reached /\ ~l.time_reached
    THEN LET l2 == [l EXCEPT !.time_reached = TRUE,
                             !.force_color_change = TRUE]
         IN  Outcome(l2, <<>>, TRUE, FALSE, "")
    ELSE IF ~current_time_reached /\ ~l.force_color_change
    THEN Outcome([l EXCEPT !.time_reached = FALSE], <<>>, FALSE, FALSE, "")
    ELSE Outcome(l, <<>>, FALSE, FALSE, "")

\* clock-mode branch of the tick, lines 261-284
clock_tick(l, now) ==
    LET current_time_reached == TimeOfDay(now) >= TimeSeconds(l.target_time) IN
    IF current_time_reached /\ ~l.time_reached
    THEN LET l2 == [l EXCEPT !.time_reached = TRUE,
                             !.force_color_change = TRUE]
         IN  Outcome(l2, <<SaveLocal(l2, TRUE, TRUE)>>, TRUE, FALSE, "")
    ELSE IF ~current_time_reached /\ ~l.force_color_change
    THEN Outcome([l EXCEPT !.time_reached = FALSE], <<>>, FALSE, FALSE, "")
    ELSE Outcome(l, <<>>, FALSE, FALSE, "")

tick(l, now) ==
    IF l.timer_mode = "presentation" THEN presentation_tick(l, now)
    ELSE clock_tick(l, now)

(* ------------------------------------------------------ button handlers *)
\* start button that restarts a running timer
start_button_restart(l, now) ==
    IF ~l.timer_started \/ ~l.timer_paused
    THEN LET l2 == [l EXCEPT !.timer_started = TRUE,
                             !.timer_start_time = now,
                             !.timer_paused = FALSE,
                             !.timer_pause_time = 0,
                             !.time_reached = FALSE,
                             !.force_color_change = FALSE]
         IN  Outcome(l2,
                     <<SaveArgs(l2.target_time, l2.suffix, FALSE, FALSE,
                                l2.timer_mode, l2.presentation_duration,
                                TRUE, l2.timer_start_time, FALSE, 0)>>,
                     FALSE, TRUE, "")
    ELSE LET remaining == Max(0, l.timer_pause_time)
             l2 == [l EXCEPT !.presentation_duration = remaining,
                             !.timer_paused = FALSE,
                             !.timer_pause_time = 0,
                             !.timer_start_time = now]
         IN  Outcome(l2,
                     <<SaveArgs(l2.target_time, l2.suffix, l2.time_reached,
                                l2.force_color_change, l2.timer_mode,
                                remaining, TRUE, l2.timer_start_time,
                                FALSE, 0)>>,
                     FALSE, TRUE, "")

\* start button that does not record the start time
start_button_no_start_time(l, now) ==
    IF ~l.timer_started
    THEN LET l2 == [l EXCEPT !.timer_started = TRUE,
                             !.timer_paused = FALSE,
                             !.timer_pause_time = 0,
                             !.time_reached = FALSE,
                             !.force_color_change = FALSE]
         IN  Outcome(l2, <<SaveLocal(l2, FALSE, FALSE)>>, FALSE, TRUE, "")
    ELSE IF l.timer_paused
    THEN LET remaining == Max(0, l.timer_pause_time)
             l2 == [l EXCEPT !.presentation_duration = remaining,
                             !.timer_paused = FALSE,
                             !.timer_pause_time = 0,
                             !.timer_start_time = now]
         IN  Outcome(l2, <<SaveLocal(l2, l2.time_reached, l2.force_color_change)>>,
                     FALSE, TRUE, "")
    ELSE Outcome(l, <<>>, FALSE, FALSE, "")

\* start button whose resume keeps the configured duration
start_button_no_rebase(l, now) ==
    IF ~l.timer_started
    THEN LET l2 == [l EXCEPT !.timer_started = TRUE,
                             !.timer_start_time = now,
                             !.timer_paused = FALSE,
                             !.timer_pause_time = 0,
                             !.time_reached = FALSE,
                             !.force_color_change = FALSE]
         IN  Outcome(l2, <<SaveLocal(l2, FALSE, FALSE)>>, FALSE, TRUE, "")
    ELSE IF l.timer_paused
    THEN LET l2 == [l EXCEPT !.timer_paused = FALSE,
                             !.timer_pause_time = 0,
                             !.timer_start_time = now]
         IN  Outcome(l2, <<SaveLocal(l2, l2.time_reached, l2.force_color_change)>>,
                     FALSE, TRUE, "")
    ELSE Outcome(l, <<>>, FALSE, FALSE, "")

\* start button, lines 539-581: new start, or resume from pause
start_button(l, now) ==
    IF ~l.timer_started
    THEN LET l2 == [l EXCEPT !.timer_started = TRUE,
                             !.timer_start_time = now,
                             !.timer_paused = FALSE,
                             !.timer_pause_time = 0,
                             !.time_reached = FALSE,
                             !.force_color_change = FALSE]
         IN  Outcome(l2,
                     <<SaveArgs(l2.target_time, l2.suffix, FALSE, FALSE,
                                l2.timer_mode, l2.presentation_duration,
                                TRUE, l2.timer_start_time, FALSE, 0)>>,
                     FALSE, TRUE, "")
    ELSE IF l.timer_paused
    THEN LET remaining == Max(0, l.timer_pause_time)
             l2 == [l EXCEPT !.presentation_duration = remaining,
                             !.timer_paused = FALSE,
                             !.timer_pause_time = 0,
                             !.timer_start_time = now]
         IN  Outcome(l2,
                     <<SaveArgs(l2.target_time, l2.suffix, l2.time_reached,
                                l2.force_color_change, l2.timer_mode,
                                remaining, TRUE, l2.timer_start_time,
                                FALSE, 0)>>,
                     FALSE, TRUE, "")
    ELSE Outcome(l, <<>>, FALSE, FALSE, "")

\* pause button that stores the remaining time without the floor at 0
pause_button_unfloored(l, now) ==
    IF l.timer_started /\ ~l.timer_paused
    THEN LET current_remaining ==
                 IF l.timer_start_time # NoTime
                 THEN Remaining(l, now)
                 ELSE l.presentation_duration
             l2 == [l EXCEPT !.timer_paused = TRUE,
                             !.timer_pause_time = current_remaining]
         IN  Outcome(l2, <<SaveLocal(l2, l2.time_reached, l2.force_color_change)>>,
                     FALSE, TRUE, "")
    ELSE Outcome(l, <<>>, FALSE, FALSE, "")

\* pause button that does not test the run state
pause_button_unguarded(l, now) ==
    LET current_remaining ==
            IF l.timer_start_time # NoTime
            THEN Max(0, Remaining(l, now))
            ELSE l.presentation_duration
        l2 == [l EXCEPT !.timer_paused = TRUE,
                        !.timer_pause_time = current_remaining]
    IN  Outcome(l2,
                <<SaveArgs(l2.target_time, l2.suffix, l2.time_reached,
                           l2.force_color_change, l2.timer_mode,
                           l2.presentation_duration, TRUE,
                           l2.timer_start_time, TRUE,
                           l2.timer_pause_time)>>,
                FALSE, TRUE, "")

\* pause button, lines 583-608
pause_button(l, now) ==
    IF l.timer_started /\ ~l.timer_paused
    THEN LET current_remaining ==
                 IF l.timer_start_time # NoTime
                 THEN Max(0, Remaining(l, now))
                 ELSE l.presentation_duration
             l2 == [l EXCEPT !.timer_paused = TRUE,
                             !.timer_pause_time = current_remaining]
         IN  Outcome(l2,
                     <<SaveArgs(l2.target_time, l2.suffix, l2.time_reached,
                                l2.force_color_change, l2.timer_mode,
                                l2.presentation_duration, TRUE,
                                l2.timer_start_time, TRUE,
                                l2.timer_pause_time)>>,
                     FALSE, TRUE, "")
    ELSE Outcome(l, <<>>, FALSE, FALSE, "")

\* reset button that also restores the default duration
reset_button_duration(l, now) ==
    LET l2 == [l EXCEPT !.timer_started = FALSE,
                        !.timer_start_time = NoTime,
                        !.timer_paused = FALSE,
                        !.timer_pause_time = 0,
                        !.time_reached = FALSE,
                        !.force_color_change = FALSE,
                        !.presentation_duration = DefaultDuration]
    IN  Outcome(l2,
                <<SaveArgs(l2.target_time, l2.suffix, FALSE, FALSE,
                           l2.timer_mode, l2.presentation_duration,
                           FALSE, NoTime, FALSE, 0)>>,
                FALSE, TRUE, "")

\* reset button, lines 610-631
reset_button(l, now) ==
    LET l2 == [l EXCEPT !.timer_started = FALSE,
                        !.timer_start_time = NoTime,
                        !.timer_paused = FALSE,
                        !.timer_pause_time = 0,
                        !.time_reached = FALSE,
                        !.force_color_change = FALSE]
    IN  Outcome(l2,
                <<SaveArgs(l2.target_time, l2.suffix, FALSE, FALSE,
                           l2.timer_mode, l2.presentation_duration,
                           FALSE, NoTime, FALSE, 0)>>,
                FALSE, TRUE, "")

\* The values of the settings form: the mode select box, the time text,
\* the suffix select box and the duration text.
FormInput(mode, time_input, suffix, duration_input) ==
    [ mode |-> mode, time_input |-> time_input, suffix |-> suffix,
      duration_input |-> duration_input ]

\* confirm button that closes the settings form also when the text does
\* not parse
confirm_button_lenient(l, now, ok, inp) ==
    IF inp.mode = "clock"
    THEN LET parsed_time == parse_time_input(inp.time_input) IN
         IF Len(parsed_time) = 1
         THEN LET input_dt == Today(now) * SecondsPerDay
                                  + TimeSeconds(parsed_time[1])
                  auto_color_change == input_dt <= now
                  args == SaveArgs(parsed_time[1], inp.suffix,
                                   auto_color_change, auto_color_change,
                                   "clock", l.presentation_duration,
                                   l.timer_started, l.timer_start_time,
                                   l.timer_paused, l.timer_pause_time)
              IN  IF ok
                  THEN Outcome([l EXCEPT !.target_time = parsed_time[1],
                                         !.suffix = inp.suffix,
                                         !.timer_mode = "clock",
                                         !.editing = FALSE,
                                         !.time_reached = auto_color_change,
                                         !.force_color_change = auto_color_change],
                               <<args>>, FALSE, TRUE, "")
                  ELSE Outcome(l, <<args>>, FALSE, FALSE, "save failed")
         ELSE Outcome([l EXCEPT !.editing = FALSE], <<>>, FALSE, TRUE,
                      "invalid time")
    ELSE LET parsed_duration == parse_duration_input(inp.duration_input) IN
         IF Len(parsed_duration) = 1 /\ parsed_duration # <<0>>
         THEN LET args == SaveArgs(l.target_time, l.suffix, l.time_reached,
                                   l.force_color_change, "presentation",
                                   parsed_duration[1], l.timer_started,
                                   l.timer_start_time, l.timer_paused,
                                   l.timer_pause_time)
              IN  IF ok
                  THEN Outcome([l EXCEPT !.timer_mode = "presentation",
                                         !.presentation_duration = parsed_duration[1],
                                         !.editing = FALSE],
                               <<args>>, FALSE, TRUE, "")
                  ELSE Outcome(l, <<args>>, FALSE, FALSE, "save failed")
         ELSE Outcome([l EXCEPT !.editing = FALSE], <<>>, FALSE, TRUE,
                      "invalid duration")

\* confirm button, lines 799-843; ok is the result of save_settings
confirm_button(l, now, ok, inp) ==
    IF inp.mode = "clock"
    THEN LET parsed_time == parse_time_input(inp.time_input) IN
         IF Len(parsed_time) = 1
         THEN LET input_dt == Today(now) * SecondsPerDay
                                  + TimeSeconds(parsed_time[1])
                  auto_color_change == input_dt <= now
                  args == SaveArgs(parsed_time[1], inp.suffix,
                                   auto_color_change, auto_color_change,
                                   "clock", l.presentation_duration,
                                   l.timer_started, l.timer_start_time,
                                   l.timer_paused, l.timer_pause_time)
              IN  IF ok
                  THEN Outcome([l EXCEPT !.target_time = parsed_time[1],
                                         !.suffix = inp.suffix,
                                         !.timer_mode = "clock",
                                         !.editing = FALSE,
                                         !.time_reached = auto_color_change,
                                         !.force_color_change = auto_color_change],
                               <<args>>, FALSE, TRUE, "")
                  ELSE Outcome(l, <<args>>, FALSE, FALSE, "save failed")
         ELSE Outcome(l, <<>>, FALSE, FALSE, "invalid time")
    ELSE LET parsed_duration == parse_duration_input(inp.duration_input) IN
         IF Len(parsed_duration) = 1 /\ parsed_duration # <<0>>
         THEN LET args == SaveArgs(l.target_time, l.suffix, l.time_reached,
                                   l.force_color_change, "presentation",
                                   parsed_duration[1], l.timer_started,
                                   l.timer_start_time, l.timer_paused,
                                   l.timer_pause_time)
              IN  IF ok
                  THEN Outcome([l EXCEPT !.timer_mode = "presentation",
                                         !.presentation_duration = parsed_duration[1],
                                         !.editing = FALSE],
                               <<args>>, FALSE, TRUE, "")
                  ELSE Outcome(l, <<args>>, FALSE, FALSE, "save failed")
         ELSE Outcome(l, <<>>, FALSE, FALSE, "invalid duration")

\* cancel button, lines 845-848
cancel_button(l) == Outcome([l EXCEPT !.editing = FALSE], <<>>, FALSE, TRUE, "")

\* settings button, lines 850-854
edit_button(l) == Outcome([l EXCEPT !.editing = TRUE], <<>>, FALSE, TRUE, "")

\* colour toggle that always sets the override
color_toggle_sticky(l, ok, stamp) ==
    LET new_color_state == ~l.time_reached
        new_force_state == TRUE
        args == SaveLocal(l, new_color_state, new_force_state)
    IN  IF ok
        THEN Outcome([l EXCEPT !.time_reached = new_color_state,
                               !.force_color_change = new_force_state,
                               !.last_timestamp = stamp],
                     <<args>>, FALSE, TRUE, "")
        ELSE Outcome(l, <<args>>, FALSE, FALSE, "save failed")

\* colour toggle button, lines 856-876; ok is the result of save_settings,
\* stamp the datetime.now().isoformat() of line 872
color_toggle(l, ok, stamp) ==
    LET new_color_state == ~l.time_reached
        new_force_state == new_color_state
        args == SaveLocal(l, new_color_state, new_force_state)
    IN  IF ok
        THEN Outcome([l EXCEPT !.time_reached = new_color_state,
                               !.force_color_change = new_force_state,
                               !.last_timestamp = stamp],
                     <<args>>, FALSE, TRUE, "")
        ELSE Outcome(l, <<args>>, FALSE, FALSE, "save failed")

(* ------------------------------------------------------------ the system *)
VARIABLES
    file,       \* timer_settings.json: <<>> if absent, else <<document>>
    fails,      \* number of save_settings calls that failed so far
    wall,       \* number of datetime.now().isoformat() stamps drawn so far
    clk,        \* index in Timeline of the current instant
    ss,         \* ss[s]: st.session_state of session s
    pc,         \* pc[s]: "new", "poll", "tick" or "act"
    clicks,     \* number of buttons clicked so far
    by_button,  \* history: the file was last written by a button handler
    fired,      \* history: the sessions that called st.balloons() and have
                \* since neither handled a click nor adopted a record
                \* written by a button handler
    last,       \* history: what the latest step did
    reset_held, \* history: a reset was persisted and no session has clicked
                \* start since
    text,       \* the content of a text field of the settings form
    parsed,     \* what the parser made of the text field, if it ran
    shown       \* the time the form formatted into the text field, if any

vars == <<file, fails, wall, clk, ss, pc, clicks, by_button, fired, last,
          reset_held, text, parsed, shown>>

\* The text fields of the settings form are checked on their own further
\* down; the sessions leave them untouched.
NotParsed == [ of |-> "none", value |-> <<>> ]
typing == <<text, parsed, shown>>

Now == Timeline[clk]

Buttons == {"none", "start_timer", "pause_timer", "reset_timer", "confirm",
            "cancel", "edit_button", "color_toggle"}

\* the texts and choices a user enters in the settings form
FormInputs ==
    { FormInput("clock", <<"1", "0", ":", "0", "0">>, COUNTING_TO, <<>>),
      FormInput("clock", <<"2", "3", "5", "9">>, STARTING_FROM, <<>>),
      FormInput("clock", <<"2", "5">>, STARTING_FROM, <<>>),
      FormInput("presentation", <<>>, STARTING_FROM, <<"0", ":", "5", "2">>),
      FormInput("presentation", <<>>, STARTING_FROM, <<"x">>) }
NoInput == FormInput("clock", <<>>, STARTING_FROM, <<>>)

\* button b is part of the page rendered from session state l, so that a
\* click on it is handled by this run
Rendered(b, l) ==
    CASE b \in {"start_timer", "pause_timer", "reset_timer"} ->
             l.timer_mode = "presentation"
      [] b \in {"confirm", "cancel"} -> l.editing
      [] b = "edit_button" -> ~l.editing
      [] b = "color_toggle" -> l.timer_mode = "clock"
      [] OTHER -> TRUE

\* the handler of the clicked button
handler(b, l, now, ok, stamp, inp) ==
    CASE b = "start_timer" -> start_button(l, now)
      [] b = "pause_timer" -> pause_button(l, now)
      [] b = "reset_timer" -> reset_button(l, now)
      [] b = "confirm" -> confirm_button(l, now, ok, inp)
      [] b = "cancel" -> cancel_button(l)
      [] b = "edit_button" -> edit_button(l)
      [] b = "color_toggle" -> color_toggle(l, ok, stamp)
      [] OTHER -> Outcome(l, <<>>, FALSE, FALSE, "")

\* a save that merges: it keeps the stored duration of an existing file
Written_merge(out, ok) ==
    IF Len(out.saves) > 0 /\ ok
    THEN LET doc == save_settings(out.saves[Len(out.saves)],
                                  wall + Len(out.saves))
         IN  IF Len(file) = 1
             THEN <<[doc EXCEPT !.presentation_duration =
                                    file[1].presentation_duration]>>
             ELSE <<doc>>
    ELSE file

\* the settings file after the save_settings calls of an outcome; ok tells
\* whether the file could be written
Written(out, ok) ==
    IF Len(out.saves) > 0 /\ ok
    THEN <<save_settings(out.saves[Len(out.saves)], wall + Len(out.saves))>>
    ELSE file

\* the outcomes the file system allows for a run piece that makes n calls
\* of save_settings
SaveResults(n) == IF n > 0 /\ fails < MaxFails THEN BOOLEAN ELSE {TRUE}

\* the history of a step: the button handled ("" outside Act), the values
\* of the settings form it was given (for a confirm), the number
\* of save_settings calls and whether they succeeded, whether st.balloons()
\* was called, and the message shown
Step(op, inp, out, ok) ==
    [ op |-> op, inp |-> inp, saves |-> Len(out.saves), ok |-> ok,
      balloons |-> out.balloons, msg |-> out.msg ]

NoOutcome == [ saves |-> <<>>, balloons |-> FALSE, msg |-> "" ]

\* The settings file outlives the server process.  A deployment starts
\* with no file, or with a file an earlier run of the program left behind:
\* here one written by confirming a duration of 0:52, one written by
\* confirming the target time 10:00, and one written by
\* starting that timer at 09:58:38, pausing it at 09:58:48 with 42 s left,
\* resuming it at 09:58:58 and pausing it again at 09:59:08 with 32 s left.
EarlierConfirm ==
    confirm_button(session_init(DefaultSettings), Timeline[1] - 20, TRUE,
                   FormInput("presentation", <<>>, STARTING_FROM,
                             <<"0", ":", "5", "2">>))
EarlierClock ==
    confirm_button(session_init(DefaultSettings), Timeline[1] - 20, TRUE,
                   FormInput("clock", <<"1", "0", ":", "0", "0">>,
                             COUNTING_TO, <<>>))
EarlierStart == start_button(EarlierConfirm.l, Timeline[1] - 30)
EarlierPause == pause_button(EarlierStart.l, Timeline[1] - 20)
EarlierResume == start_button(EarlierPause.l, Timeline[1] - 10)
EarlierPauseAgain == pause_button(EarlierResume.l, Timeline[1])

InitialFiles ==
    { <<>>,
      <<save_settings(EarlierConfirm.saves[1], 1)>>,
      <<save_settings(EarlierClock.saves[1], 1)>>,
      <<save_settings(EarlierPauseAgain.saves[1], 1)>> }

Init ==
    /\ file \in InitialFiles
    /\ fails = 0
    /\ wall = Len(file)
    /\ clk = 1
    /\ clicks = 0
    /\ by_button = TRUE
    /\ fired = {}
    /\ ss = [s \in Sessions |-> session_init(DefaultSettings)]
    /\ pc = [s \in Sessions |-> "new"]
    /\ last = Step("", NoInput, NoOutcome, TRUE)
    /\ reset_held = FALSE
    /\ text = <<>>
    /\ parsed = NotParsed
    /\ shown = <<>>

\* first run of a session: lines 163-192
Join(s) ==
    /\ pc[s] = "new"
    /\ ss' = [ss EXCEPT ![s] = session_init(load_settings(file))]
    /\ pc' = [pc EXCEPT ![s] = "poll"]
    /\ last' = Step("", NoInput, NoOutcome, TRUE)
    /\ UNCHANGED <<file, fails, wall, clk, clicks, by_button, fired, reset_held,
                   typing>>

\* lines 194-210
Poll(s) ==
    /\ pc[s] = "poll"
    /\ ss' = [ss EXCEPT ![s] = adopt(ss[s], load_settings(file))]
    /\ pc' = [pc EXCEPT ![s] = "tick"]
    /\ fired' = IF by_button /\ ss'[s] # ss[s] THEN fired \ {s} ELSE fired
    /\ last' = Step("", NoInput, NoOutcome, TRUE)
    /\ UNCHANGED <<file, fails, wall, clk, clicks, by_button, reset_held, typing>>

\* lines 212-284
Tick(s) ==
    LET out == tick(ss[s], Now) IN
    /\ pc[s] = "tick"
    /\ wall + Len(out.saves) <= MaxStamp
    /\ \E ok \in SaveResults(Len(out.saves)) :
          /\ file' = Written(out, ok)
          /\ fails' = IF ok THEN fails ELSE fails + 1
          /\ by_button' = (by_button /\ file' = file)
          /\ last' = Step("", NoInput, out, ok)
    /\ fired' = IF out.balloons THEN fired \cup {s} ELSE fired
    /\ ss' = [ss EXCEPT ![s] = out.l]
    /\ wall' = wall + Len(out.saves)
    /\ pc' = [pc EXCEPT ![s] = "act"]
    /\ UNCHANGED <<clk, clicks, reset_held, typing>>

\* lines 455-883: the page is rendered and the clicked button, if any, is
\* handled
Act(s) ==
    /\ pc[s] = "act"
    /\ \E b \in {c \in Buttons : Rendered(c, ss[s])} :
       /\ (b # "none" => clicks < MaxClicks)
       /\ \E inp \in (IF b = "confirm" THEN FormInputs ELSE {NoInput}) :
          \E ok \in BOOLEAN :
          LET out == handler(b, ss[s], Now, ok, wall + 2, inp)
              draws == Len(out.saves)
                         + (IF b = "color_toggle" /\ ok THEN 1 ELSE 0)
          IN  /\ ok \in SaveResults(Len(out.saves))
              /\ clicks' = IF b = "none" THEN clicks ELSE clicks + 1
              /\ wall + draws <= MaxStamp
              /\ ss' = [ss EXCEPT ![s] = out.l]
              /\ file' = Written(out, ok)
              /\ fails' = IF ok THEN fails ELSE fails + 1
              /\ wall' = wall + draws
              /\ by_button' = (by_button \/ file' # file)
              /\ fired' = IF b = "none" THEN fired ELSE fired \ {s}
              /\ last' = Step(b, inp, out, ok)
              /\ reset_held' = CASE b = "reset_timer" -> (reset_held \/ ok)
                                  [] b = "start_timer" -> FALSE
                                  [] OTHER -> reset_held
    /\ pc' = [pc EXCEPT ![s] = "poll"]
    /\ UNCHANGED <<clk, typing>>

\* The wall clock moves on to the next instant.  A run takes milliseconds
\* from line 214 to its handlers and the instants are seconds apart: the
\* `now` of a run is still the current instant when its handler runs.
AdvanceTime ==
    /\ clk < NumInstants
    /\ \A s \in Sessions : pc[s] # "act"
    /\ clk' = clk + 1
    /\ last' = Step("", NoInput, NoOutcome, TRUE)
    /\ UNCHANGED <<file, fails, wall, ss, pc, clicks, by_button, fired,
                   reset_held, typing>>

Next ==
    \/ \E s \in Sessions : Join(s)
    \/ \E s \in Sessions : Poll(s)
    \/ \E s \in Sessions : Tick(s)
    \/ \E s \in Sessions : Act(s)
    \/ AdvanceTime

Spec == Init /\ [][Next]_vars

(* ---------------------------------------------- polling any settings file *)
\* What a poll does with whatever it finds in place of the settings file.
\* The file is written by open(..., 'w') and json.dump, so a reader can
\* find it empty; it can also be edited by hand or left by an older
\* version of the program.
StoppedDoc == save_settings(EarlierConfirm.saves[1], 1)
ClockDoc == save_settings(EarlierClock.saves[1], 1)
PausedDoc == save_settings(EarlierPauseAgain.saves[1], 2)
\* an empty file, or one that is not a JSON object
EmptyDoc == << >>
\* a time text strptime rejects, in an otherwise complete document
BadTimeDoc == [PausedDoc EXCEPT !.time = <<"2", "5", ":", "0", "0">>]
\* no 'suffix' key
NoSuffixDoc == [ time |-> <<"1", "0", ":", "0", "0">>, timestamp |-> 2 ]
\* only the two keys load_settings requires
MinimalDoc == [ time |-> <<"1", "0", ":", "0", "0">>, suffix |-> COUNTING_TO ]
\* a time text without zero padding, which strptime accepts
ShortTimeDoc == [PausedDoc EXCEPT !.time = <<"7", ":", "5">>]

Stores ==
    { <<>>, <<EmptyDoc>>, <<BadTimeDoc>>, <<NoSuffixDoc>>, <<MinimalDoc>>,
      <<ShortTimeDoc>>, <<PausedDoc>>, <<ClockDoc>> }

\* session states of sessions that are already open
LocalStates ==
    { session_init(load_settings(<<StoppedDoc>>)),
      session_init(load_settings(<<ClockDoc>>)),
      session_init(load_settings(<<PausedDoc>>)),
      [session_init(load_settings(<<PausedDoc>>)) EXCEPT !.last_timestamp = 1] }

LoadInit ==
    /\ file \in Stores
    /\ fails = 0
    /\ wall = MaxStamp
    /\ clk = 1
    /\ clicks = MaxClicks
    /\ by_button = TRUE
    /\ fired = {}
    /\ pc \in [Sessions -> {"new", "poll"}]
    /\ ss \in [Sessions -> LocalStates \cup {session_init(DefaultSettings)}]
    /\ \A s \in Sessions :
          pc[s] = "new" <=> ss[s] = session_init(DefaultSettings)
    /\ last = Step("", NoInput, NoOutcome, TRUE)
    /\ reset_held = FALSE
    /\ text = <<>>
    /\ parsed = NotParsed
    /\ shown = <<>>

LoadNext ==
    \/ \E s \in Sessions : Join(s)
    \/ \E s \in Sessions : Poll(s)

LoadSpec == LoadInit /\ [][LoadNext]_vars

(* ------------------------------------------ a session that is pink already *)
\* The paused timer of the deployment above was left for clock mode: the
\* session confirmed the target time 9:59 at 09:59:08, when it had passed
\* already, so that the confirm set both colour flags; the session has
\* reloaded and adopted its own record, and a second session is about to
\* open the page.
LaterClock ==
    confirm_button(EarlierPauseAgain.l, Timeline[1], TRUE,
                   FormInput("clock", <<"9", ":", "5", "9">>, COUNTING_TO, <<>>))

LaterDoc == save_settings(LaterClock.saves[1], 1)

LaterInit ==
    /\ file = <<LaterDoc>>
    /\ fails = 0
    /\ wall = 1
    /\ clk = 1
    /\ clicks = 0
    /\ by_button = TRUE
    /\ fired = {}
    /\ ss = [s \in Sessions |->
               IF s = "A" THEN adopt(LaterClock.l, load_settings(<<LaterDoc>>))
               ELSE session_init(DefaultSettings)]
    /\ pc = [s \in Sessions |-> IF s = "A" THEN "tick" ELSE "new"]
    /\ last = Step("", NoInput, NoOutcome, TRUE)
    /\ reset_held = FALSE
    /\ text = <<>>
    /\ parsed = NotParsed
    /\ shown = <<>>

LaterSpec == LaterInit /\ [][Next]_vars

(* --------------------------------------- the text fields of the settings form *)
\* What the parsers make of whatever is typed in a text field of the form.
\* MaxLen is the greatest number of characters typed.
MaxLen == 5

\* the characters typed: digits, a colon, a letter and full-width forms
Alphabet == {"0", "1", "5", "9", ":", "x", FullwidthSeven, FullwidthColon}

Texts == UNION {[1..n -> Alphabet] : n \in 0..MaxLen}

ParseInit ==
    /\ file = <<>>
    /\ fails = 0
    /\ wall = 0
    /\ clk = 1
    /\ clicks = 0
    /\ by_button = TRUE
    /\ fired = {}
    /\ ss = [s \in Sessions |-> session_init(DefaultSettings)]
    /\ pc = [s \in Sessions |-> "new"]
    /\ last = Step("", NoInput, NoOutcome, TRUE)
    /\ reset_held = FALSE
    /\ text \in Texts
    /\ parsed = NotParsed
    /\ shown = <<>>

session == <<file, fails, wall, clk, ss, pc, clicks, by_button, fired, last,
             reset_held>>

\* line 757: parsed_time = parse_time_input(time_input)
ParseTime ==
    /\ parsed.of = "none"
    /\ parsed' = [ of |-> "time", value |-> parse_time_input(text) ]
    /\ UNCHANGED <<text, shown, session>>

\* line 789: parsed_duration = parse_duration_input(duration_input)
ParseDuration ==
    /\ parsed.of = "none"
    /\ parsed' = [ of |-> "duration", value |-> parse_duration_input(text) ]
    /\ UNCHANGED <<text, shown, session>>

\* lines 716-718: once the parsed time is confirmed as the target time, the
\* form opens with target_time.strftime('%H:%M') in the time field
Reformat ==
    /\ parsed.of = "time"
    /\ parsed.value # <<>>
    /\ shown = <<>>
    /\ text' = Strftime(parsed.value[1])
    /\ shown' = parsed.value
    /\ parsed' = NotParsed
    /\ UNCHANGED session

ParseNext ==
    \/ ParseTime
    \/ ParseDuration
    \/ Reformat

ParseSpec == ParseInit /\ [][ParseNext]_vars

TypeOK ==
    /\ Len(file) <= 1
    /\ wall \in 0..MaxStamp
    /\ clk \in 1..NumInstants
    /\ \A s \in Sessions : pc[s] \in {"new", "poll", "tick", "act"}

(* ------------------------------------------------------------ properties *)
\* the record load_settings returns for the current file
Stored == load_settings(file)

\* session s executes the tick / the button handling / the poll of a run
TickStep(s) == pc[s] = "tick" /\ pc'[s] = "act"
ActStep(s) == pc[s] = "act" /\ pc'[s] = "poll"
PollStep(s) == pc[s] = "poll" /\ pc'[s] = "tick"
Click(s, b) == ActStep(s) /\ last'.op = b

Stopped(l) == ~l.timer_started
Running(l) == l.timer_started /\ ~l.timer_paused
Paused(l) == l.timer_started /\ l.timer_paused

\* the step called save_settings once, and if the write succeeded the file
\* holds the shared fields of session state l under a fresh timestamp
Persisted(l) ==
    /\ last'.saves = 1
    /\ last'.ok =>
          /\ Len(file') = 1
          /\ file'[1].timestamp > wall
          /\ file'[1].time = Strftime(l.target_time)
          /\ file'[1].suffix = l.suffix
          /\ file'[1].color_state = l.time_reached
          /\ file'[1].force_color = l.force_color_change
          /\ file'[1].timer_mode = l.timer_mode
          /\ file'[1].presentation_duration = l.presentation_duration
          /\ file'[1].timer_started = l.timer_started
          /\ file'[1].timer_start_time = l.timer_start_time
          /\ file'[1].timer_paused = l.timer_paused
          /\ file'[1].timer_pause_time = l.timer_pause_time
    /\ ~last'.ok => file' = file

\* the step called save_settings not at all
NoWrite == last'.saves = 0 /\ file' = file

\* C1: in every reachable state, in every session state and in the
\* persisted record, timer_paused never holds together with
\* timer_started = false, so that (timer_started, timer_paused) denotes
\* exactly one of STOPPED, RUNNING and PAUSED.
C1_RunStateWellFormed ==
    /\ \A s \in Sessions : ~(ss[s].timer_paused /\ ~ss[s].timer_started)
    /\ Len(file) = 1 => ~(file[1].timer_paused /\ ~file[1].timer_started)

\* a session paused its timer, the record is persisted and another session
\* has adopted it
C1_Witness ==
    /\ last.op = "pause_timer" /\ last.saves = 1 /\ last.ok
    /\ Len(file) = 1 /\ file[1].timer_paused /\ file[1].timer_started
    /\ \E s \in Sessions : Paused(ss[s]) /\ pc[s] = "poll"

\* now.time() >= target_time for the session state l
TargetPassed(l) == TimeOfDay(Now) >= TimeSeconds(l.target_time)

\* C2: in clock mode a tick with time of day >= target_time and the
\* session not yet reached sets time_reached and force_color_change, calls
\* save_settings with that record and calls st.balloons(); a tick before
\* the target time (09:59:18 for 10:00) neither signals nor writes, the
\* tick at 10:00:00 does; and a later tick of a session that has signalled,
\* with the time still >= target_time and no user action in between,
\* neither signals again nor writes.
C2_ClockReachedOnce ==
    [][\A s \in Sessions :
          TickStep(s) /\ ss[s].timer_mode = "clock" =>
             /\ TargetPassed(ss[s]) /\ ~ss[s].time_reached =>
                   /\ ss'[s] = [ss[s] EXCEPT !.time_reached = TRUE,
                                             !.force_color_change = TRUE]
                   /\ last'.balloons
                   /\ Persisted(ss'[s])
             /\ ~TargetPassed(ss[s]) => ~last'.balloons /\ NoWrite
             /\ s \in fired /\ TargetPassed(ss[s]) =>
                   ~last'.balloons /\ NoWrite]_vars

\* a session that signalled at 10:00 has ticked again, the latest step,
\* without signalling or writing (the other session has not opened the
\* page, so that the latest step is this session's tick)
C2_Witness ==
    /\ Now >= 36000 /\ ~last.balloons /\ last.saves = 0 /\ last.op = ""
    /\ \E s \in Sessions :
          /\ pc[s] = "act" /\ s \in fired
          /\ ss[s].timer_mode = "clock" /\ ss[s].target_time = Time(10, 0)
          /\ ss[s].time_reached
          /\ \A r \in Sessions \ {s} : pc[r] = "new"

\* C3: while the timer is RUNNING, a tick with remaining <= 0 and the
\* session not flagged reached sets time_reached and force_color_change,
\* calls save_settings with that record and calls st.balloons(); a tick
\* with remaining > 0 does neither; and a later tick of a session that has
\* signalled, the timer still running and no user action in between,
\* neither signals again nor writes.
C3_ExpiryOnce ==
    [][\A s \in Sessions :
          TickStep(s) /\ ss[s].timer_mode = "presentation"
                      /\ Running(ss[s]) /\ ss[s].timer_start_time # NoTime =>
             /\ Remaining(ss[s], Now) <= 0 /\ ~ss[s].time_reached =>
                   /\ ss'[s] = [ss[s] EXCEPT !.time_reached = TRUE,
                                             !.force_color_change = TRUE]
                   /\ last'.balloons
                   /\ Persisted(ss'[s])
             /\ Remaining(ss[s], Now) > 0 => ~last'.balloons /\ NoWrite
             /\ s \in fired => ~last'.balloons /\ NoWrite]_vars

\* the expiry has just been signalled exactly presentation_duration
\* seconds after the start
C3_Witness ==
    /\ last.balloons /\ last.saves = 1 /\ last.ok
    /\ \E s \in Sessions :
          /\ pc[s] = "act" /\ s \in fired
          /\ ss[s].timer_mode = "presentation" /\ Running(ss[s])
          /\ ss[s].time_reached
          /\ ss[s].presentation_duration = 52
          /\ Now - ss[s].timer_start_time = ss[s].presentation_duration

\* the advances of the clock the remaining time is evaluated at
Advances == {0, 10, 42}

\* C4: a click on start from PAUSED makes the pause snapshot the new
\* presentation_duration, sets timer_start_time to now, clears
\* timer_paused and calls save_settings with that record; the remaining
\* time d seconds later is the snapshot minus d, in every round of pause
\* and resume.
C4_Resume ==
    [][\A s \in Sessions :
          Click(s, "start_timer") /\ Paused(ss[s]) =>
             /\ ss'[s].presentation_duration = ss[s].timer_pause_time
             /\ ss'[s].timer_start_time = Now
             /\ ~ss'[s].timer_paused
             /\ ss'[s].timer_started
             /\ Persisted(ss'[s])
             /\ \A d \in Advances :
                   Remaining(ss'[s], Now + d) = ss[s].timer_pause_time - d]_vars

\* second round: a timer paused at 42 s, resumed and paused again 10 s
\* later at 32 s has been resumed
C4_Witness ==
    /\ last.op = "start_timer" /\ last.saves = 1 /\ last.ok
    /\ \E s \in Sessions :
          /\ pc[s] = "poll" /\ Running(ss[s])
          /\ ss[s].presentation_duration = 32
          /\ ss[s].timer_start_time = Now

\* C5: a click on reset, from any timer state, leaves the session with
\* timer_started = false, timer_start_time empty, timer_paused = false,
\* timer_pause_time = 0 and both colour flags false, calls save_settings
\* with that record, and leaves presentation_duration, target_time, suffix
\* and timer_mode as they were.
C5_Reset ==
    [][\A s \in Sessions :
          Click(s, "reset_timer") =>
             /\ ~ss'[s].timer_started
             /\ ss'[s].timer_start_time = NoTime
             /\ ~ss'[s].timer_paused
             /\ ss'[s].timer_pause_time = 0
             /\ ~ss'[s].time_reached
             /\ ~ss'[s].force_color_change
             /\ ss'[s].presentation_duration = ss[s].presentation_duration
             /\ ss'[s].target_time = ss[s].target_time
             /\ ss'[s].suffix = ss[s].suffix
             /\ ss'[s].timer_mode = ss[s].timer_mode
             /\ Persisted(ss'[s])]_vars

\* a reset has been persisted while the other session still holds the
\* expired running timer with its rebaselined duration
C5_Witness ==
    /\ last.op = "reset_timer" /\ last.ok
    /\ Len(file) = 1 /\ ~file[1].timer_started /\ ~file[1].color_state
    /\ file[1].presentation_duration = 32
    /\ \E s \in Sessions : Running(ss[s]) /\ ss[s].time_reached
                           /\ ss[s].presentation_duration = 32

\* C6: a click on start takes effect only from STOPPED: it sets
\* timer_start_time = now, timer_started = true, timer_paused = false,
\* timer_pause_time = 0 and both colour flags false, calls save_settings
\* with that record and leaves presentation_duration unchanged; from
\* RUNNING the click changes nothing, from PAUSED it resumes without
\* touching the colour flags.
C6_Start ==
    [][\A s \in Sessions :
          Click(s, "start_timer") =>
             /\ Stopped(ss[s]) =>
                   /\ ss'[s].timer_start_time = Now
                   /\ ss'[s].timer_started
                   /\ ~ss'[s].timer_paused
                   /\ ss'[s].timer_pause_time = 0
                   /\ ~ss'[s].time_reached
                   /\ ~ss'[s].force_color_change
                   /\ ss'[s].presentation_duration = ss[s].presentation_duration
                   /\ ss'[s].target_time = ss[s].target_time
                   /\ Persisted(ss'[s])
             /\ Running(ss[s]) => ss'[s] = ss[s] /\ NoWrite
             /\ Paused(ss[s]) =>
                   /\ ss'[s].time_reached = ss[s].time_reached
                   /\ ss'[s].force_color_change = ss[s].force_color_change]_vars

\* a timer was started from STOPPED and the start is persisted
C6_Witness ==
    /\ last.op = "start_timer" /\ last.saves = 1 /\ last.ok
    /\ Len(file) = 1 /\ file[1].timer_started /\ ~file[1].timer_paused
    /\ file[1].timer_start_time = Now
    /\ file[1].presentation_duration = 52
    /\ \E s \in Sessions : pc[s] = "poll" /\ Running(ss[s])
                           /\ ss[s].timer_start_time = Now

\* C7: a click on pause takes effect only from RUNNING: it stores
\* max(0, presentation_duration - (now - timer_start_time)) as
\* timer_pause_time, sets timer_paused and calls save_settings with that
\* record; the snapshot is never negative, also in overtime; from STOPPED
\* and PAUSED the click changes nothing.
C7_Pause ==
    [][\A s \in Sessions :
          Click(s, "pause_timer") =>
             /\ Running(ss[s]) /\ ss[s].timer_start_time # NoTime =>
                   /\ ss'[s].timer_pause_time =
                         Max(0, ss[s].presentation_duration
                                  - (Now - ss[s].timer_start_time))
                   /\ ss'[s].timer_pause_time >= 0
                   /\ ss'[s].timer_paused
                   /\ ss'[s].timer_started
                   /\ ss'[s].presentation_duration = ss[s].presentation_duration
                   /\ ss'[s].timer_start_time = ss[s].timer_start_time
                   /\ Persisted(ss'[s])
             /\ ~Running(ss[s]) => ss'[s] = ss[s] /\ NoWrite]_vars

\* a timer was paused in overtime: the snapshot is 0
C7_Witness ==
    /\ last.op = "pause_timer" /\ last.saves = 1 /\ last.ok
    /\ \E s \in Sessions :
          /\ pc[s] = "poll" /\ Paused(ss[s])
          /\ ss[s].timer_pause_time = 0
          /\ Now - ss[s].timer_start_time > ss[s].presentation_duration

\* C8: a click in an invalid state is a no-op: pause while STOPPED or
\* PAUSED and start while RUNNING change no field of the session state,
\* do not call save_settings and show no error.
C8_InvalidStateNoOp ==
    [][\A s \in Sessions :
          /\ Click(s, "pause_timer") /\ (Stopped(ss[s]) \/ Paused(ss[s])) =>
                ss'[s] = ss[s] /\ NoWrite /\ last'.msg = ""
          /\ Click(s, "start_timer") /\ Running(ss[s]) =>
                ss'[s] = ss[s] /\ NoWrite /\ last'.msg = ""]_vars

\* pause was clicked on a paused timer
C8_Witness ==
    /\ last.op = "pause_timer" /\ last.saves = 0
    /\ \E s \in Sessions : pc[s] = "poll" /\ Paused(ss[s])

\* session state l shows what the persisted record says
HoldsStored(l) ==
    Len(file) = 1 =>
       /\ Strftime(l.target_time) = file[1].time
       /\ l.suffix = file[1].suffix
       /\ l.time_reached = file[1].color_state
       /\ l.force_color_change = file[1].force_color
       /\ l.timer_mode = file[1].timer_mode
       /\ l.presentation_duration = file[1].presentation_duration
       /\ l.timer_started = file[1].timer_started
       /\ l.timer_start_time = file[1].timer_start_time
       /\ l.timer_paused = file[1].timer_paused
       /\ l.timer_pause_time = file[1].timer_pause_time

\* C9: a poll whose loaded timestamp is non-empty and differs from the
\* cached one replaces target_time, suffix, the colour flags, timer_mode,
\* presentation_duration, the four timer fields and the cached timestamp
\* by the stored values; a missing file, an empty or an equal timestamp
\* leave the session state unchanged.  A reader polling after two writes
\* holds the later record, never a mix.
C9_Adoption ==
    [][\A s \in Sessions :
          PollStep(s) =>
             IF Len(file) = 1 /\ file[1].timestamp # NoStamp
                  /\ file[1].timestamp # ss[s].last_timestamp
             THEN /\ Strftime(ss'[s].target_time) = file[1].time
                  /\ ss'[s].suffix = file[1].suffix
                  /\ ss'[s].last_timestamp = file[1].timestamp
                  /\ ss'[s].time_reached = file[1].color_state
                  /\ ss'[s].force_color_change = file[1].force_color
                  /\ ss'[s].timer_mode = file[1].timer_mode
                  /\ ss'[s].presentation_duration = file[1].presentation_duration
                  /\ ss'[s].timer_started = file[1].timer_started
                  /\ ss'[s].timer_start_time = file[1].timer_start_time
                  /\ ss'[s].timer_paused = file[1].timer_paused
                  /\ ss'[s].timer_pause_time = file[1].timer_pause_time
                  /\ ss'[s].editing = ss[s].editing
             ELSE ss'[s] = ss[s]]_vars

\* after the start of the timer by one session (write 2) and its expiry
\* signal (write 3), the other session, which did neither, has polled and
\* holds the whole later record, colour flags included
C9_Witness ==
    /\ fails = 0 /\ last.op = "" /\ last.saves = 0
    /\ Len(file) = 1 /\ file[1].timestamp = 3
    /\ file[1].color_state /\ file[1].force_color /\ file[1].timer_started
    /\ \E s \in Sessions :
          /\ pc[s] = "tick" /\ s \notin fired
          /\ ss[s].last_timestamp = 3
          /\ HoldsStored(ss[s])
          /\ \E r \in Sessions \ {s} : r \in fired /\ pc[r] = "act"

\* the JSON document a save of session state l at stamp ts writes
RecordOf(l, ts) ==
    save_settings(SaveLocal(l, l.time_reached, l.force_color_change), ts)

\* C11: every write replaces the whole record by the writer's local copy,
\* with no merge: after a tick or a button handler of session s has
\* written the file, the file is exactly the record of the state s now
\* holds under a fresh timestamp, whatever another session wrote since s
\* last read the store; and a session whose cached timestamp differs
\* holds that record after its next poll.
C11_FullRecordOverwrite ==
    [][\A s \in Sessions :
          /\ (TickStep(s) \/ ActStep(s)) /\ file' # file =>
                /\ Len(file') = 1
                /\ file'[1].timestamp > wall
                /\ file'[1] = RecordOf(ss'[s], file'[1].timestamp)
          /\ PollStep(s) /\ Len(file) = 1
                /\ file[1].timestamp # ss[s].last_timestamp =>
                RecordOf(ss'[s], ss'[s].last_timestamp) = file[1]]_vars

\* lost update: from the file of the timer paused at 32 s (duration 42),
\* one session has reset the timer; the other, which had read the store
\* before that reset, has then resumed: the file holds the running timer
\* with duration 32 and nothing of the reset
C11_Witness ==
    /\ fails = 0 /\ last.op = "start_timer" /\ last.saves = 1
    /\ Len(file) = 1 /\ file[1].timestamp = 3
    /\ \E s \in Sessions :
          /\ pc[s] = "poll" /\ Running(ss[s])
          /\ ss[s].presentation_duration = 32
          /\ file[1] = RecordOf(ss[s], 3)
          /\ \E r \in Sessions \ {s} :
                Stopped(ss[r]) /\ ss[r].presentation_duration = 42

\* the clock-mode session states with every combination of colour flags
\* and the target times 10:00 and 23:59
ClockStates ==
    { [session_init(DefaultSettings) EXCEPT !.target_time = tm,
                                            !.time_reached = tr,
                                            !.force_color_change = fc] :
        tm \in {Time(10, 0), Time(23, 59)}, tr \in BOOLEAN, fc \in BOOLEAN }

\* C12: a clock-mode tick takes a session from REACHED to NOT_REACHED only
\* when the time of day is before target_time and force_color_change is
\* false; while force_color_change is true no tick clears time_reached,
\* at any instant of the time line (the next day included).  Stated for
\* every tick of a run and for the tick applied to every combination of
\* the flags.
C12_ClockClear ==
    /\ \A l \in ClockStates : \A i \in 1..Len(Timeline) :
          LET l2 == tick(l, Timeline[i]).l IN
          /\ l.time_reached /\ ~l2.time_reached =>
                /\ TimeOfDay(Timeline[i]) < TimeSeconds(l.target_time)
                /\ ~l.force_color_change
          /\ l.force_color_change /\ l.time_reached => l2.time_reached
    /\ [][\A s \in Sessions :
             TickStep(s) /\ ss[s].timer_mode = "clock" =>
                /\ ss[s].time_reached /\ ~ss'[s].time_reached =>
                      ~TargetPassed(ss[s]) /\ ~ss[s].force_color_change
                /\ ss[s].force_color_change /\ ss[s].time_reached =>
                      ss'[s].time_reached /\ ss'[s].force_color_change]_vars

\* a session forced to pink by the toggle before its target time of 23:59
\* has ticked (the other session has not opened the page) and is still
\* pink
C12_Witness ==
    /\ last.op = "" /\ last.saves = 0
    /\ \E s \in Sessions :
          /\ pc[s] = "act" /\ ss[s].timer_mode = "clock"
          /\ ss[s].time_reached /\ ss[s].force_color_change
          /\ ~TargetPassed(ss[s])
          /\ \A r \in Sessions \ {s} : pc[r] = "new"

\* C13: the colour toggle is offered whenever the session is in clock
\* mode, in every colour state, before and after the target time and
\* also while the settings form is open.  A click calls save_settings with
\* the record of the session in which color_state and force_color are
\* both the negation of time_reached, and when the write succeeds the
\* session holds these flags, with target_time, suffix, timer_mode,
\* presentation_duration and the timer fields unchanged.
C13_Toggle ==
    /\ \A l \in ClockStates : \A e \in BOOLEAN :
          Rendered("color_toggle", [l EXCEPT !.editing = e])
    /\ [][\A s \in Sessions :
             Click(s, "color_toggle") =>
                LET toggled == [ss[s] EXCEPT
                                   !.time_reached = ~ss[s].time_reached,
                                   !.force_color_change = ~ss[s].time_reached]
                IN  /\ ss[s].timer_mode = "clock"
                    /\ Persisted(toggled)
                    /\ last'.ok =>
                          /\ [ss'[s] EXCEPT !.last_timestamp = 0]
                                = [toggled EXCEPT !.last_timestamp = 0]
                          /\ file'[1].color_state = ~ss[s].time_reached
                          /\ file'[1].force_color = ~ss[s].time_reached]_vars

\* a pink session has been toggled back to grey after its target time of
\* 10:00 has come: both flags are false in the session and in the file,
\* and the target time, suffix and mode are those of before
C13_Witness ==
    /\ last.op = "color_toggle" /\ last.saves = 1 /\ last.ok
    /\ Len(file) = 1 /\ ~file[1].color_state /\ ~file[1].force_color
    /\ file[1].time = Strftime(Time(10, 0)) /\ file[1].suffix = COUNTING_TO
    /\ \E s \in Sessions :
          /\ pc[s] = "poll" /\ ss[s].timer_mode = "clock"
          /\ ~ss[s].time_reached /\ ~ss[s].force_color_change
          /\ ss[s].target_time = Time(10, 0) /\ TargetPassed(ss[s])
          /\ s \notin fired /\ ss[s].last_timestamp > file[1].timestamp

\* session s runs its tick or handles a click, being in clock mode
ClockStep(s) == (TickStep(s) \/ ActStep(s)) /\ ss[s].timer_mode = "clock"

\* C14 as stated: in clock mode no tick and no action other than the
\* colour toggle changes force_color_change from true to false, in the
\* session state or in the persisted record.
C14_OnlyToggleClears ==
    [][\A s \in Sessions :
          ClockStep(s) /\ last'.op # "color_toggle" =>
             /\ ss[s].force_color_change => ss'[s].force_color_change
             /\ Len(file) = 1 /\ file[1].force_color =>
                   file'[1].force_color]_vars

\* C14 as amended: the colour toggle and the confirm of a target time in
\* clock mode are the only steps by which a session clears its own sticky
\* force_color_change: no tick and no other action of a clock-mode session
\* whose force_color_change is true leaves it false or writes a record
\* with force_color false.
C14_ToggleOrConfirmClears ==
    [][\A s \in Sessions :
          ClockStep(s) /\ ss[s].force_color_change
                       /\ last'.op # "color_toggle"
                       /\ ~(last'.op = "confirm"
                               /\ ss'[s].timer_mode = "clock") =>
             /\ ss'[s].force_color_change
             /\ file' # file => file'[1].force_color]_vars

\* a session that turned pink at its target time of 10:00 has switched to
\* presentation mode by a confirm: the override is kept, in the session
\* and in the file
C14_Witness ==
    /\ last.op = "confirm" /\ last.saves = 1 /\ last.ok
    /\ Len(file) = 1 /\ file[1].force_color
    /\ file[1].timer_mode = "presentation"
    /\ \E s \in Sessions :
          /\ pc[s] = "poll" /\ ss[s].timer_mode = "presentation"
          /\ ss[s].force_color_change /\ ss[s].target_time = Time(10, 0)
          /\ ~ss[s].editing

\* C15: whenever a save_settings call of a run fails, whichever tick or
\* button handler made it, the session shows a warning (and the step
\* leaves the file as it was).
C15_SaveFailureWarned ==
    [][\A s \in Sessions :
          (TickStep(s) \/ ActStep(s)) /\ last'.saves > 0 /\ ~last'.ok =>
             last'.msg # "" /\ file' = file]_vars

\* the text of the settings form that the confirm handler reads does not
\* parse: the time in clock mode, the duration in presentation mode
Unparsable(inp) ==
    IF inp.mode = "clock" THEN parse_time_input(inp.time_input) = <<>>
    ELSE parse_duration_input(inp.duration_input) = <<>>

\* C16: a click on confirm with a text that does not parse makes no
\* save_settings call and changes no field of the session state (the form
\* stays open) and nothing of the file.
C16_InvalidConfirm ==
    [][\A s \in Sessions :
          Click(s, "confirm") /\ Unparsable(last'.inp) =>
             ss'[s] = ss[s] /\ NoWrite]_vars

\* confirm was clicked with the time text "25" by a session whose timer is
\* paused: the form is still open and the session and the file are those
\* of the paused timer
C16_Witness ==
    /\ last.op = "confirm" /\ last.inp.mode = "clock"
    /\ last.inp.time_input = <<"2", "5">> /\ last.saves = 0
    /\ Len(file) = 1 /\ file[1].timer_paused /\ file[1].timestamp = 1
    /\ \E s \in Sessions :
          /\ pc[s] = "poll" /\ ss[s].editing /\ Paused(ss[s])
          /\ ss[s].timer_mode = "presentation"
          /\ \A r \in Sessions \ {s} : pc[r] = "new"

\* the stores without a record that can be parsed
CorruptStores == { <<>>, <<EmptyDoc>>, <<BadTimeDoc>>, <<NoSuffixDoc>> }

\* C17: load_settings returns, for a missing file and for a file that
\* cannot be parsed, the defaults (23:59, STARTING_FROM, clock mode, 900 s,
\* all flags false) with an empty timestamp; a session that polls such a
\* store keeps its session state, and a session that opens the page on it
\* starts from the defaults.
C17_LoadDefaults ==
    /\ [](file \in CorruptStores =>
             load_settings(file) =
                [ time |-> Time(23, 59), suffix |-> STARTING_FROM,
                  timestamp |-> NoStamp, color_state |-> FALSE,
                  force_color |-> FALSE, timer_mode |-> "clock",
                  presentation_duration |-> 900, timer_started |-> FALSE,
                  timer_start_time |-> NoTime, timer_paused |-> FALSE,
                  timer_pause_time |-> 0 ])
    /\ [][\A s \in Sessions :
             /\ PollStep(s) /\ file \in CorruptStores => ss'[s] = ss[s]
             /\ pc[s] = "new" /\ pc'[s] = "poll" /\ file \in CorruptStores =>
                   /\ ss'[s].target_time = Time(23, 59)
                   /\ ss'[s].timer_mode = "clock"
                   /\ ss'[s].last_timestamp = NoStamp]_vars

\* a session showing the paused timer of record 1 has polled a file whose
\* time text is 25:00 and whose timestamp is 2, and still shows the
\* paused timer
C17_Witness ==
    /\ file = <<BadTimeDoc>>
    /\ \E s \in Sessions :
          /\ pc[s] = "tick" /\ Paused(ss[s])
          /\ ss[s].last_timestamp = 1 /\ ss[s].timer_pause_time = 32

\* C21: the remaining time of the presentation timer is a function of the
\* session state and now alone, and the tick and the display of a run
\* compute the same value: duration - (now - start) while running, the
\* pause time while paused, the duration while stopped; the tick expires
\* the timer by that value, and computing it changes none of the fields
\* it is computed from.
C21_Remaining ==
    [][\A s \in Sessions :
          (TickStep(s) /\ ss[s].timer_mode = "presentation") =>
             LET l == ss[s]
                 r == remaining_seconds(l, Now)
             IN  /\ Running(l) =>
                       r = l.presentation_duration - (Now - l.timer_start_time)
                 /\ Paused(l) => r = l.timer_pause_time
                 /\ Stopped(l) => r = l.presentation_duration
                 /\ display_remaining_seconds(ss'[s], Now') = r
                 /\ last'.balloons <=>
                       (Running(l) /\ r <= 0 /\ ~l.time_reached)
                 /\ ss'[s] = [l EXCEPT
                                !.time_reached = ss'[s].time_reached,
                                !.force_color_change =
                                    ss'[s].force_color_change]]_vars

\* a run shows 20 seconds of overtime right after its tick expired the
\* timer
C21_Witness ==
    \E s \in Sessions :
       /\ pc[s] = "act" /\ last.balloons
       /\ Running(ss[s]) /\ ss[s].time_reached
       /\ display_remaining_seconds(ss[s], Now) = -20

\* C22: once a reset has been persisted, no tick of any session writes a
\* record with timer_started = true before some session clicks start.
C22_ResetHolds ==
    [][\A s \in Sessions :
          (TickStep(s) /\ reset_held /\ file' # file) =>
              ~file'[1].timer_started]_vars

\* C22, amended: a tick writes the timer_started of the session's own
\* copy: after a persisted reset the store turns to timer_started = true
\* only by a start click or by a session whose copy still has the timer
\* started, and the only ticks that do so are the expiry tick and the
\* clock-mode reached tick of such a session.
C22_TickWritesOwnCopy ==
    [][/\ \A s \in Sessions :
             (TickStep(s) /\ file' # file) =>
                 /\ file'[1].timer_started = ss[s].timer_started
                 /\ file'[1].timer_started => last'.balloons
       /\ (/\ reset_held
           /\ file # <<>> /\ ~file[1].timer_started
           /\ file'[1].timer_started) =>
              \E s \in Sessions :
                 /\ TickStep(s) \/ ActStep(s)
                 /\ ss[s].timer_started \/ last'.op = "start_timer"]_vars

\* the expiry tick of a session that still held the running timer has
\* written it over the reset
C22_Witness ==
    /\ reset_held
    /\ last.balloons /\ last.saves = 1 /\ last.ok
    /\ file[1].timer_started /\ file[1].color_state
    /\ \E s \in Sessions :
          /\ pc[s] = "act" /\ Running(ss[s])
          /\ \E r \in Sessions \ {s} : Stopped(ss[r])

\* C23: in clock mode a session that renders after its tick with the time
\* of day >= target_time has time_reached = true: a tick that finds the
\* session grey although the target time has passed, as after a manual
\* toggle to grey, sets time_reached and force_color_change again, calls
\* save_settings and calls st.balloons() again.
C23_PinkAfterTarget ==
    /\ [](\A s \in Sessions :
             (/\ pc[s] = "act"
              /\ ss[s].timer_mode = "clock"
              /\ TargetPassed(ss[s])) => ss[s].time_reached)
    /\ [][\A s \in Sessions :
             (/\ TickStep(s)
              /\ ss[s].timer_mode = "clock"
              /\ TargetPassed(ss[s])
              /\ ~ss[s].time_reached) =>
                /\ ss'[s].time_reached /\ ss'[s].force_color_change
                /\ last'.balloons
                /\ last'.saves = 1
                /\ last'.ok => (file'[1].color_state /\ file'[1].force_color
                                  /\ file'[1].timestamp > wall)]_vars

\* the pink session was toggled to grey (stamps 2 and 3) and its next tick
\* has made it pink again (stamp 4); the other session has not opened the
\* page
C23_Witness ==
    /\ clicks = 1 /\ wall = 4
    /\ last.balloons /\ last.saves = 1 /\ last.ok
    /\ file[1].color_state /\ file[1].force_color /\ file[1].timestamp = 4
    /\ \E s \in Sessions :
          /\ pc[s] = "act" /\ ss[s].timer_mode = "clock"
          /\ ss[s].time_reached /\ ss[s].force_color_change
          /\ ss[s].last_timestamp = 2
          /\ \A r \in Sessions \ {s} : pc[r] = "new"

\* C24: color_state and force_color are equal in every record the program
\* writes and time_reached and force_color_change are equal in every
\* session state, after any sequence of ticks, adoptions and actions; so
\* the clock-mode tick before the target time, which clears time_reached
\* when force_color_change is not set, never changes time_reached.
C24_FlagsEqual ==
    /\ [](/\ \A s \in Sessions :
                ss[s].time_reached = ss[s].force_color_change
          /\ file # <<>> => file[1].color_state = file[1].force_color)
    /\ [][\A s \in Sessions :
             (/\ TickStep(s)
              /\ ss[s].timer_mode = "clock"
              /\ ~TargetPassed(ss[s])) => ss'[s] = ss[s]]_vars

\* a session of the default clock (23:59) was toggled to pink and back to
\* grey, has adopted its own record and has ticked before the target time
C24_Witness ==
    /\ clicks = 2 /\ last.op = "" /\ last.saves = 0
    /\ file # <<>> /\ file[1].timestamp = 3
    /\ ~file[1].color_state /\ ~file[1].force_color
    /\ \E s \in Sessions :
          /\ pc[s] = "act" /\ ss[s].timer_mode = "clock"
          /\ ss[s].target_time = Time(23, 59) /\ ~TargetPassed(ss[s])
          /\ ss[s].last_timestamp = 3
          /\ ~ss[s].time_reached /\ ~ss[s].force_color_change

\* C25: in presentation mode a session that renders after its tick has
\* time_reached = true only if the timer is started and its remaining time
\* is <= 0.
C25_PinkOnlyExpired ==
    \A s \in Sessions :
       (/\ pc[s] = "act"
        /\ ss[s].timer_mode = "presentation"
        /\ ss[s].time_reached) =>
           /\ ss[s].timer_started
           /\ display_remaining_seconds(ss[s], Now) <= 0

\* C26: in presentation mode with the timer stopped, a tick that finds
\* time_reached = true clears time_reached and force_color_change and calls
\* save_settings with that record; so a session that renders a stopped
\* presentation timer after its tick shows the not-reached colour.
C26_StoppedGrey ==
    /\ [](\A s \in Sessions :
             (/\ pc[s] = "act"
              /\ ss[s].timer_mode = "presentation"
              /\ Stopped(ss[s])) => ~ss[s].time_reached)
    /\ [][\A s \in Sessions :
             (/\ TickStep(s)
              /\ ss[s].timer_mode = "presentation"
              /\ Stopped(ss[s])
              /\ ss[s].time_reached) =>
                /\ ss'[s] = [ss[s] EXCEPT !.time_reached = FALSE,
                                          !.force_color_change = FALSE]
                /\ ~last'.balloons
                /\ Persisted(ss'[s])]_vars

\* a clock that was reached has been switched to the stopped presentation
\* timer, and the tick of the next run has cleared and saved the flags
C26_Witness ==
    /\ clicks = 2 /\ last.op = "" /\ last.saves = 1 /\ last.ok
    /\ ~last.balloons
    /\ file[1].timer_mode = "presentation" /\ file[1].timestamp = wall
    /\ ~file[1].color_state /\ ~file[1].force_color
    /\ \E s \in Sessions :
          /\ pc[s] = "act" /\ ss[s].timer_mode = "presentation"
          /\ Stopped(ss[s]) /\ ss[s].target_time = Time(10, 0)
          /\ ~ss[s].time_reached /\ ~ss[s].force_color_change

\* C27: in clock mode, whenever the elapsed display is rendered, that is
\* with time_reached = true, the elapsed time now minus today's target
\* time is not negative.
C27_ElapsedNotNegative ==
    \A s \in Sessions :
       (/\ pc[s] = "act"
        /\ ss[s].timer_mode = "clock"
        /\ ss[s].time_reached) => clock_elapsed(ss[s], Now) >= 0

\* The digits and colons of a text, width variants in their plain form.
Kept(t) == Clean(Normalize(t))
Colons(c) == {i \in 1..Len(c) : c[i] = ":"}
\* the number written by the digits c[a..b]; -1 if there is none
Number(c, a, b) == IF a > b THEN -1 ELSE IntOf(SubSeq(c, a, b))

\* The hour and minute C18 reads out of the kept characters; -1 where the
\* shape is not one it accepts.
ReadTime(c) ==
    LET n == Len(c)
        d(i) == DigitVal(c[i])
    IN  IF Colons(c) # {}
        THEN IF Cardinality(Colons(c)) = 1
             THEN LET p == CHOOSE i \in Colons(c) : TRUE
                  IN  Time(Number(c, 1, p - 1), Number(c, p + 1, n))
             ELSE Time(-1, -1)
        ELSE CASE n = 1 -> Time(d(1), 0)
               [] n = 2 -> Time(10 * d(1) + d(2), 0)
               [] n = 3 -> Time(d(1), 10 * d(2) + d(3))
               [] n = 4 -> Time(10 * d(1) + d(2), 10 * d(3) + d(4))
               [] OTHER -> Time(-1, -1)

\* C18: parse_time_input keeps the digits and colons of the text; with a
\* colon it accepts exactly two numeric parts, hour and minute; without one
\* it accepts 1 to 4 digits, 1-2 digits being the hour with minute 0, 3
\* digits the hour and two digits of minute, 4 digits two of each; it
\* returns None for any other shape, for an hour outside 0..23 or a minute
\* outside 0..59, and for the empty text.  "7" and "700" give 07:00, "1930"
\* gives 19:30, "25:00" and "" give None.
C18_ParseTime ==
    /\ parse_time_input(<<"7">>) = <<Time(7, 0)>>
    /\ parse_time_input(<<"7", "0", "0">>) = <<Time(7, 0)>>
    /\ parse_time_input(<<"1", "9", "3", "0">>) = <<Time(19, 30)>>
    /\ parse_time_input(<<"2", "5", ":", "0", "0">>) = <<>>
    /\ parse_time_input(<<>>) = <<>>
    /\ parsed.of = "time" =>
          LET tm == ReadTime(Kept(text)) IN
          IF /\ text # <<>>
             /\ tm.hour \in 0..23
             /\ tm.minute \in 0..59
          THEN parsed.value = <<tm>>
          ELSE parsed.value = <<>>

\* full-width seven, a letter, "15": read as 7:15
C18_Witness ==
    /\ text = <<FullwidthSeven, "x", "1", "5">>
    /\ parsed = [ of |-> "time", value |-> <<Time(7, 15)>> ]

\* C19: parse_duration_input, without a colon, reads a plain integer n and
\* returns None if n <= 0, n*60 if n < 60 and n if n >= 60; with a colon
\* it requires exactly two parts, minutes of any size and seconds in
\* 0..59, and returns minutes*60+seconds; every malformed or empty text
\* gives None.  "15" gives 900, "59" 3540, "60" 60, "90" 90, "0" None,
\* "1:30" 90 and "90:00" 5400.
C19_ParseDuration ==
    /\ parse_duration_input(<<"1", "5">>) = <<900>>
    /\ parse_duration_input(<<"5", "9">>) = <<3540>>
    /\ parse_duration_input(<<"6", "0">>) = <<60>>
    /\ parse_duration_input(<<"9", "0">>) = <<90>>
    /\ parse_duration_input(<<"0">>) = <<>>
    /\ parse_duration_input(<<"1", ":", "3", "0">>) = <<90>>
    /\ parse_duration_input(<<"9", "0", ":", "0", "0">>) = <<5400>>
    /\ parsed.of = "duration" =>
          LET c == Kept(text)
              n == Number(c, 1, Len(c))
          IN  IF Colons(c) = {}
              THEN parsed.value = (CASE n <= 0 -> <<>>
                                     [] n > 0 /\ n < 60 -> <<n * 60>>
                                     [] OTHER -> <<n>>)
              ELSE LET p == CHOOSE i \in Colons(c) : TRUE
                       minutes == Number(c, 1, p - 1)
                       seconds == Number(c, p + 1, Len(c))
                   IN  IF /\ Cardinality(Colons(c)) = 1
                          /\ minutes >= 0
                          /\ seconds \in 0..59
                       THEN parsed.value = <<minutes * 60 + seconds>>
                       ELSE parsed.value = <<>>

\* "95" with a letter in it is 95 seconds
C19_Witness ==
    /\ text = <<"9", "x", "5">>
    /\ parsed = [ of |-> "duration", value |-> <<95>> ]

\* C20: for every text parse_time_input accepts, the result formatted as
\* HH:MM and parsed again is the same time of day.
C20_RoundTrip ==
    (parsed.of = "time" /\ shown # <<>>) =>
        /\ Len(text) = 5 /\ text[3] = ":"
        /\ parsed.value = shown

\* 19:05, typed as "19:5", was shown as "19:05" and read again
C20_Witness ==
    /\ shown = <<Time(19, 5)>>
    /\ text = <<"1", "9", ":", "0", "5">>
    /\ parsed = [ of |-> "time", value |-> <<Time(19, 5)>> ]

(* ------------------------------------------------------------- liveness *)
\* The refresh loop of lines 880-883 reruns the script of a session that
\* is not editing; a run that has started reaches its end.
FairSpec ==
    /\ Spec
    /\ \A s \in Sessions :
          /\ WF_vars(Poll(s) /\ ~ss[s].editing)
          /\ WF_vars(Tick(s))
          /\ WF_vars(Act(s))

====
